---- MODULE Spec2Model ----
(***************************************************************************)
(* A model of api/download.go: the HTTP handler DownloadLatestGithubRelease *)
(* and its helpers GetLatestRelease, TimeStrToUnix, AssertByName, NewResp   *)
(* and WriteJson.                                                           *)
(*                                                                          *)
(* Go strings are sequences of one-character strings, so that splitting a   *)
(* repo on "/" and parsing an RFC3339 timestamp are computed character by   *)
(* character.  An int64 count of Unix seconds is the pair [d, s] standing   *)
(* for d * 86400 + s with 0 <= s < 86400 (the count itself does not fit the *)
(* model checker's integers); pairs are ordered as the counts are.          *)
(***************************************************************************)
EXTENDS Integers, Sequences, FiniteSets, TLC

VARIABLES
    pc,          \* per handling: position in DownloadLatestGithubRelease
    req,         \* per handling: the inbound request (method, query)
    w,           \* per handling: the http.ResponseWriter
    calls,       \* per handling: number of client.Do invocations
    upstream,    \* per handling: what client.Do returned
    respStruct,  \* per handling: the local respStruct after json.Unmarshal
    ret          \* per handling: the local ret

vars == <<pc, req, w, calls, upstream, respStruct, ret>>

(***************************************************************************)
(* Bounds of the model.                                                     *)
(***************************************************************************)
\* longest repo query value, in characters
MaxRepoLen == 3

\* most releases in an upstream body handled by the handler
MaxReleases == 2

\* most releases in an upstream body of SpecLatest
MaxLatestLen == 3

(***************************************************************************)
(* Strings.                                                                 *)
(***************************************************************************)
Str(n, alphabet) == UNION {[1..k -> alphabet] : k \in 0..n}

Digits == {"0", "1", "2", "3", "4", "5", "6", "7", "8", "9"}

DigitVal(c) ==
    CASE c = "0" -> 0 [] c = "1" -> 1 [] c = "2" -> 2 [] c = "3" -> 3
      [] c = "4" -> 4 [] c = "5" -> 5 [] c = "6" -> 6 [] c = "7" -> 7
      [] c = "8" -> 8 [] c = "9" -> 9

HexDigits == Digits \cup {"a", "b", "c", "d", "e", "f", "A", "B", "C", "D", "E", "F"}

\* the decimal number written at s[i..j], or -1 when a character is no digit
RECURSIVE Atoi(_, _, _)
Atoi(s, i, j) ==
    IF i > j THEN 0
    ELSE IF j > Len(s) \/ s[j] \notin Digits THEN -1
    ELSE LET hi == Atoi(s, i, j - 1)
         IN  IF hi < 0 THEN -1 ELSE hi * 10 + DigitVal(s[j])

(***************************************************************************)
(* time.Parse(time.RFC3339, s) and Time.Unix().                             *)
(***************************************************************************)
IsLeap(y) == y % 4 = 0 /\ (y % 100 # 0 \/ y % 400 = 0)

DaysIn(y, m) ==
    IF m = 2 THEN (IF IsLeap(y) THEN 29 ELSE 28)
    ELSE IF m \in {4, 6, 9, 11} THEN 30 ELSE 31

\* days from 1970-01-01 to y-m-d in the proleptic Gregorian calendar
DaysFromCivil(y, m, d) ==
    LET yy  == IF m <= 2 THEN y - 1 ELSE y
        era == yy \div 400
        yoe == yy - era * 400
        mp  == IF m > 2 THEN m - 3 ELSE m + 9
        doy == (153 * mp + 2) \div 5 + d - 1
        doe == yoe * 365 + yoe \div 4 - yoe \div 100 + doy
    IN  era * 146097 + doe - 719468

\* [d, s] of a count of seconds relative to day `days`
UnixOf(days, secs) ==
    [d |-> days + secs \div 86400, s |-> secs % 86400]

\* the zero time.Time, January 1, year 1, 00:00:00 UTC
ZeroTime == UnixOf(DaysFromCivil(1, 1, 1), 0)

\* Unix second 0
UnixZero == [d |-> 0, s |-> 0]

UnixGT(a, b) == a.d > b.d \/ (a.d = b.d /\ a.s > b.s)

\* index after an optional fractional second ".ddd" starting at i
RECURSIVE SkipDigits(_, _)
SkipDigits(s, i) ==
    IF i <= Len(s) /\ s[i] \in Digits THEN SkipDigits(s, i + 1) ELSE i

AfterFraction(s, i) ==
    IF i + 1 <= Len(s) /\ s[i] \in {".", ","} /\ s[i + 1] \in Digits
    THEN SkipDigits(s, i + 1)
    ELSE i

\* the zone offset in seconds written at s[i..], or "err"
ZoneOffset(s, i) ==
    IF Len(s) = i /\ s[i] = "Z" THEN [ok |-> TRUE, off |-> 0]
    ELSE IF Len(s) = i + 5 /\ s[i] \in {"+", "-"} /\ s[i + 3] = ":"
    THEN LET hh == Atoi(s, i + 1, i + 2)
             mm == Atoi(s, i + 4, i + 5)
         IN  IF hh < 0 \/ hh > 23 \/ mm < 0 \/ mm > 59
             THEN [ok |-> FALSE, off |-> 0]
             ELSE [ok |-> TRUE,
                   off |-> (IF s[i] = "-" THEN -1 ELSE 1) * (hh * 3600 + mm * 60)]
    ELSE [ok |-> FALSE, off |-> 0]

\* time.Parse(time.RFC3339, s): [err, t]; on error t is the zero Time
ParseRFC3339(s) ==
    LET bad == [err |-> TRUE, t |-> ZeroTime]
    IN
    IF Len(s) < 20 THEN bad
    ELSE IF ~(s[5] = "-" /\ s[8] = "-" /\ s[11] = "T" /\ s[14] = ":" /\ s[17] = ":")
    THEN bad
    ELSE
    LET year  == Atoi(s, 1, 4)
        month == Atoi(s, 6, 7)
        day   == Atoi(s, 9, 10)
        hour  == Atoi(s, 12, 13)
        min   == Atoi(s, 15, 16)
        sec   == Atoi(s, 18, 19)
        z     == ZoneOffset(s, AfterFraction(s, 20))
    IN  IF year < 0 \/ month < 1 \/ month > 12 \/ day < 1 THEN bad
        ELSE IF day > DaysIn(year, month) THEN bad
        ELSE IF hour < 0 \/ hour > 23 \/ min < 0 \/ min > 59 \/ sec < 0 \/ sec > 59
        THEN bad
        ELSE IF ~z.ok THEN bad
        ELSE [err |-> FALSE,
              t   |-> UnixOf(DaysFromCivil(year, month, day),
                             hour * 3600 + min * 60 + sec - z.off)]

\* func TimeStrToUnix(s string) int64.  A parse error is logged and the
\* zero Time that time.Parse returned with it is converted all the same.
TimeStrToUnix(s) ==
    IF s = <<>> THEN UnixZero
    ELSE ParseRFC3339(s).t

(***************************************************************************)
(* The published_at strings the model draws from.                           *)
(***************************************************************************)
\* "": a draft's published_at
TEmpty == <<>>

\* "2023-02-30T00:00:00Z": well-formed, day out of range: a parse error
TBadDay ==
    <<"2", "0", "2", "3", "-", "0", "2", "-", "3", "0",
      "T", "0", "0", ":", "0", "0", ":", "0", "0", "Z">>

\* "0000-01-01T00:00:00Z": valid, before the zero Time
TYear0 ==
    <<"0", "0", "0", "0", "-", "0", "1", "-", "0", "1",
      "T", "0", "0", ":", "0", "0", ":", "0", "0", "Z">>

\* "1969-12-31T23:59:59Z": valid, Unix second -1
T1969 ==
    <<"1", "9", "6", "9", "-", "1", "2", "-", "3", "1",
      "T", "2", "3", ":", "5", "9", ":", "5", "9", "Z">>

\* "1970-01-01T00:00:00Z": valid, Unix second 0
TEpoch ==
    <<"1", "9", "7", "0", "-", "0", "1", "-", "0", "1",
      "T", "0", "0", ":", "0", "0", ":", "0", "0", "Z">>

\* "2020-01-01T00:00:00Z": valid
T2020 ==
    <<"2", "0", "2", "0", "-", "0", "1", "-", "0", "1",
      "T", "0", "0", ":", "0", "0", ":", "0", "0", "Z">>

\* "2023-06-01T00:00:00Z": valid
T2023 ==
    <<"2", "0", "2", "3", "-", "0", "6", "-", "0", "1",
      "T", "0", "0", ":", "0", "0", ":", "0", "0", "Z">>

\* "2023-06-01T02:00:00+02:00": valid, the same instant as T2023
T2023East ==
    <<"2", "0", "2", "3", "-", "0", "6", "-", "0", "1",
      "T", "0", "2", ":", "0", "0", ":", "0", "0", "+", "0", "2", ":", "0", "0">>

TimeStrs == {TEmpty, TBadDay, TYear0, T1969, TEpoch, T2023, T2023East}

(***************************************************************************)
(* Go values.  A *GitHubReleasesResp is Nil or a struct; of the struct's    *)
(* fields only PublishedAt and Assets are read, and of an asset only Name   *)
(* and BrowserDownloadUrl.                                                  *)
(***************************************************************************)
Nil == [nil |-> TRUE]

Release(publishedAt, assets) ==
    [nil |-> FALSE, PublishedAt |-> publishedAt, Assets |-> assets]

Asset(name, url) == [Name |-> name, BrowserDownloadUrl |-> url]

NoError == "<nil>"

(***************************************************************************)
(* func GetLatestRelease(resp []*GitHubReleasesResp) *GitHubReleasesResp    *)
(***************************************************************************)
\* mutant of Later: >= for >, so that the last of equal times wins
LaterOrEqual(r, max) ==
    ~UnixGT(TimeStrToUnix(max.PublishedAt), TimeStrToUnix(r.PublishedAt))

\* the loop's test: TimeStrToUnix(r.PublishedAt) > TimeStrToUnix(max.PublishedAt)
Later(r, max) ==
    UnixGT(TimeStrToUnix(r.PublishedAt), TimeStrToUnix(max.PublishedAt))

\* the loop from element i on, max being resp[m]: the index the loop ends
\* with, or -1 when r.PublishedAt or max.PublishedAt dereferences a nil pointer
RECURSIVE LatestLoop(_, _, _)
LatestLoop(resp, i, m) ==
    IF i > Len(resp) THEN m
    ELSE IF resp[i].nil \/ resp[m].nil THEN -1
    ELSE LatestLoop(resp, i + 1, IF Later(resp[i], resp[m]) THEN i ELSE m)

\* the index of the element returned (0: nil is returned; -1: panic)
GetLatestIndex(resp) ==
    IF Len(resp) = 0 THEN 0
    ELSE IF Len(resp) = 1 THEN 1
    ELSE LatestLoop(resp, 1, 1)

\* [panic, ret]
GetLatestRelease(resp) ==
    LET i == GetLatestIndex(resp)
    IN  [panic |-> i < 0, ret |-> IF i <= 0 THEN Nil ELSE resp[i]]

(***************************************************************************)
(* func (r *GitHubReleasesResp) AssertByName(name string) (string, error)   *)
(***************************************************************************)
\* the range loop over r.Assets from index i on
\* mutant of AssetLoop: no return inside the loop, the last match is kept
RECURSIVE AssetLoopLast(_, _, _)
AssetLoopLast(assets, name, i) ==
    IF i > Len(assets) THEN [url |-> "", err |-> "not found"]
    ELSE LET rest == AssetLoopLast(assets, name, i + 1)
         IN  IF rest.err = NoError \/ assets[i].Name # name THEN rest
             ELSE [url |-> assets[i].BrowserDownloadUrl, err |-> NoError]

RECURSIVE AssetLoop(_, _, _)
AssetLoop(assets, name, i) ==
    IF i > Len(assets) THEN [url |-> "", err |-> "not found"]
    ELSE IF assets[i].Name = name
    THEN [url |-> assets[i].BrowserDownloadUrl, err |-> NoError]
    ELSE AssetLoop(assets, name, i + 1)

\* mutant of AssertByName: the receiver and the asset list are tested before
\* the name
AssertByNameLate(r, name) ==
    IF r.nil THEN [url |-> "", err |-> "github api response is empty"]
    ELSE IF Len(r.Assets) = 0 THEN [url |-> "", err |-> "asset list is empty"]
    ELSE IF name = "" THEN [url |-> "", err |-> "release filename is empty"]
    ELSE AssetLoop(r.Assets, name, 1)

AssertByName(r, name) ==
    IF name = "" THEN [url |-> "", err |-> "release filename is empty"]
    ELSE IF r.nil THEN [url |-> "", err |-> "github api response is empty"]
    ELSE IF Len(r.Assets) = 0 THEN [url |-> "", err |-> "asset list is empty"]
    ELSE AssetLoop(r.Assets, name, 1)

(***************************************************************************)
(* The inbound request.  A query parameter is absent or has a value;        *)
(* r.URL.Query().Get yields "" for an absent one.  The repo value is a      *)
(* character sequence, the name value an atom compared for equality.        *)
(***************************************************************************)
Handlers == {1, 2}

MethodGet == "GET"

homePage == "https://github-latest-release.vercel.app"

Absent(empty) == [present |-> FALSE, value |-> empty]

Present(v) == [present |-> TRUE, value |-> v]

QueryGet(param) == param.value

RepoChars == {"o", "/", "%"}

RepoParams == {Absent(<<>>)} \cup {Present(v) : v \in Str(MaxRepoLen, RepoChars)}

NameParams == {Absent(""), Present(""), Present("a.zip"), Present("b.zip")}

Requests ==
    [method : {MethodGet, "POST"}, repo : RepoParams, name : NameParams]

\* strings.Split(s, sep) for a one-character sep: the segments of s[i..],
\* cur being the segment under construction
RECURSIVE SplitFrom(_, _, _, _)
SplitFrom(s, sep, i, cur) ==
    IF i > Len(s) THEN <<cur>>
    ELSE IF s[i] = sep THEN <<cur>> \o SplitFrom(s, sep, i + 1, <<>>)
    ELSE SplitFrom(s, sep, i + 1, Append(cur, s[i]))

Split(s, sep) == SplitFrom(s, sep, 1, <<>>)

\* the negation of the test len(strings.Split(repoName, "/")) != 2
RepoWellFormed(repoName) == Len(Split(repoName, "/")) = 2

\* the path of fmt.Sprintf(githubAPI, repoName)
ApiPath(repoName) ==
    <<"/", "r", "e", "p", "o", "s", "/">> \o repoName
        \o <<"/", "r", "e", "l", "e", "a", "s", "e", "s">>

\* http.NewRequest's error: url.Parse rejects a "%" that does not start an
\* escape of two hexadecimal digits
NewRequestFails(repoName) ==
    LET path == ApiPath(repoName)
    IN  \E i \in 1..Len(path) :
            /\ path[i] = "%"
            /\ ~(/\ i + 2 <= Len(path)
                 /\ path[i + 1] \in HexDigits
                 /\ path[i + 2] \in HexDigits)

(***************************************************************************)
(* http.ResponseWriter: the status line and the headers go out with the     *)
(* first WriteHeader (Write calls WriteHeader(200) when none was made);     *)
(* the header map changed afterwards reaches nobody.                        *)
(***************************************************************************)
StatusOK == 200

StatusTemporaryRedirect == 307

StatusMethodNotAllowed == 405

NewWriter ==
    [wroteHeader |-> FALSE, status |-> 0, header |-> {}, sent |-> {}, body |-> <<>>]

WriteHeader(rw, code) ==
    IF rw.wroteHeader THEN rw
    ELSE [rw EXCEPT !.wroteHeader = TRUE, !.status = code, !.sent = rw.header]

HeaderSet(rw, key, value) ==
    [rw EXCEPT !.header = {kv \in @ : kv[1] # key} \cup {<<key, value>>}]

Write(rw, b) ==
    LET r1 == WriteHeader(rw, StatusOK)
    IN  [r1 EXCEPT !.body = Append(@, b)]

\* func NewResp(code int, msg string) map[string]interface{}
NewResp(code, msg) == [code |-> code, msg |-> msg]

\* mutant of WriteJson: the error is reported with a 400 status
WriteJsonBadRequest(rw, data) ==
    Write(WriteHeader(rw, 400), [kind |-> "json", data |-> data])

\* func WriteJson(w http.ResponseWriter, data interface{})
WriteJson(rw, data) == Write(rw, [kind |-> "json", data |-> data])

\* fmt.Sprintf(format, args...)
Sprintf(format, args) == [format |-> format, args |-> args]

\* http.Redirect(w, r, url, code) for an absolute url: Location, the status,
\* and for a GET a short HTML body
Redirect(rw, r, url, code) ==
    LET r1 == WriteHeader(HeaderSet(rw, "Location", url), code)
    IN  IF r.method = MethodGet
        THEN [r1 EXCEPT !.body = Append(@, [kind |-> "html", href |-> url])]
        ELSE r1

\* the else branch: w.WriteHeader(405), then w.Header().Set("Allow", "GET")
MethodNotAllowedReply(rw) ==
    HeaderSet(WriteHeader(rw, StatusMethodNotAllowed), "Allow", MethodGet)

(***************************************************************************)
(* The upstream reply: what client.Do returns, and the JSON document in     *)
(* the body.  A document is invalid text, null, an object (the API's error  *)
(* message) or an array whose elements are null or release objects.         *)
(***************************************************************************)
JInvalid == [j |-> "invalid"]

JNull == [j |-> "null"]

JErrorObject == [j |-> "object"]

JArray(elems) == [j |-> "array", elems |-> elems]

JRelease(publishedAt, assets) ==
    [j |-> "release", published_at |-> publishedAt, assets |-> assets]

JAsset(name, url) == [name |-> name, browser_download_url |-> url]

A1 == JAsset("a.zip", "https://x/1/a.zip")

A2 == JAsset("a.zip", "https://x/2/a.zip")

B3 == JAsset("b.zip", "https://x/3/b.zip")

AssetLists == {<<>>, <<A1>>, <<B3>>, <<A1, A2>>, <<B3, A2>>}

HandlerTimes == {T2020, T2023}

JElements ==
    {JNull} \cup {JRelease(t, as) : t \in HandlerTimes, as \in AssetLists}

Documents ==
    {JInvalid, JNull, JErrorObject} \cup {JArray(es) : es \in Str(MaxReleases, JElements)}

Body(doc) == [readErr |-> FALSE, doc |-> doc]

BrokenBody == [readErr |-> TRUE, doc |-> JInvalid]

Bodies == {BrokenBody} \cup {Body(doc) : doc \in Documents}

UpstreamStatuses == {200, 403}

NoReply == [err |-> FALSE, status |-> 0, body |-> BrokenBody]

TransportError == [err |-> TRUE, status |-> 0, body |-> BrokenBody]

Reply(status, body) == [err |-> FALSE, status |-> status, body |-> body]

\* json.Unmarshal of one array element into a *GitHubReleasesResp
DecodeRelease(e) ==
    IF e.j = "null" THEN Nil
    ELSE Release(e.published_at,
                 [i \in 1..Len(e.assets) |->
                     Asset(e.assets[i].name, e.assets[i].browser_download_url)])

\* json.Unmarshal(bodyData, &respStruct): [err, val]
Unmarshal(doc) ==
    CASE doc.j = "array" ->
            [err |-> FALSE,
             val |-> [i \in 1..Len(doc.elems) |-> DecodeRelease(doc.elems[i])]]
      [] doc.j = "null" -> [err |-> FALSE, val |-> <<>>]
      [] OTHER -> [err |-> TRUE, val |-> <<>>]

(***************************************************************************)
(* func DownloadLatestGithubRelease(w http.ResponseWriter, r *http.Request) *)
(* One action per way through the function between two blocking calls.      *)
(***************************************************************************)
RepoName(h) == QueryGet(req[h].repo)

Finish(h, rw) ==
    /\ pc' = [pc EXCEPT ![h] = "done"]
    /\ w' = [w EXCEPT ![h] = rw]

\* the else branch of the method test
MethodNotAllowed(h) ==
    /\ pc[h] = "start"
    /\ req[h].method # MethodGet
    /\ Finish(h, MethodNotAllowedReply(w[h]))
    /\ UNCHANGED <<req, calls, upstream, respStruct, ret>>

\* repoName == ""
RepoMissing(h) ==
    /\ pc[h] = "start"
    /\ req[h].method = MethodGet
    /\ RepoName(h) = <<>>
    /\ Finish(h, WriteJson(w[h], NewResp(-1,
           Sprintf("please provide repo name, for more detail, visit: %s",
                   <<homePage>>))))
    /\ UNCHANGED <<req, calls, upstream, respStruct, ret>>

\* len(strings.Split(repoName, "/")) != 2
RepoMalformed(h) ==
    /\ pc[h] = "start"
    /\ req[h].method = MethodGet
    /\ RepoName(h) # <<>>
    /\ ~RepoWellFormed(RepoName(h))
    /\ Finish(h, WriteJson(w[h], NewResp(-1,
           Sprintf("please check your repo name(%s), for more detail, visit: %s",
                   <<RepoName(h), homePage>>))))
    /\ UNCHANGED <<req, calls, upstream, respStruct, ret>>

Validated(h) ==
    /\ pc[h] = "start"
    /\ req[h].method = MethodGet
    /\ RepoName(h) # <<>>
    /\ RepoWellFormed(RepoName(h))

\* http.NewRequest returns an error: logged, return
NewRequestError(h) ==
    /\ Validated(h)
    /\ NewRequestFails(RepoName(h))
    /\ Finish(h, w[h])
    /\ UNCHANGED <<req, calls, upstream, respStruct, ret>>

\* http.NewRequest succeeds
NewRequest(h) ==
    /\ Validated(h)
    /\ ~NewRequestFails(RepoName(h))
    /\ pc' = [pc EXCEPT ![h] = "do"]
    /\ UNCHANGED <<req, w, calls, upstream, respStruct, ret>>

\* mutant of ClientDoError: the call is tried again, up to three times
ClientDoErrorRetry(h) ==
    /\ pc[h] = "do"
    /\ calls[h] < 3
    /\ calls' = [calls EXCEPT ![h] = @ + 1]
    /\ UNCHANGED <<pc, req, w, upstream, respStruct, ret>>

\* client.Do(req) returns an error: logged, return
ClientDoError(h) ==
    /\ pc[h] = "do"
    /\ calls' = [calls EXCEPT ![h] = @ + 1]
    /\ upstream' = [upstream EXCEPT ![h] = TransportError]
    /\ Finish(h, w[h])
    /\ UNCHANGED <<req, respStruct, ret>>

\* client.Do(req) returns a response, of any status
ClientDo(h, bodies) ==
    /\ pc[h] = "do"
    /\ calls' = [calls EXCEPT ![h] = @ + 1]
    /\ \E status \in UpstreamStatuses, body \in bodies :
           upstream' = [upstream EXCEPT ![h] = Reply(status, body)]
    /\ pc' = [pc EXCEPT ![h] = "read"]
    /\ UNCHANGED <<req, w, respStruct, ret>>

\* mutant of BodyOf: a reply whose status is not 200 is given up, as a body
\* that cannot be read is
BodyOfOKReply(reply) == IF reply.status = StatusOK THEN reply.body ELSE BrokenBody

\* resp.Body, whatever resp.StatusCode is
BodyOf(reply) == reply.body

\* ioutil.ReadAll(resp.Body) returns an error: logged, return
ReadAllError(h) ==
    /\ pc[h] = "read"
    /\ BodyOf(upstream[h]).readErr
    /\ Finish(h, w[h])
    /\ UNCHANGED <<req, calls, upstream, respStruct, ret>>

BodyRead(h) == pc[h] = "read" /\ ~BodyOf(upstream[h]).readErr

Decoded(h) == Unmarshal(BodyOf(upstream[h]).doc)

\* json.Unmarshal returns an error: logged, return
UnmarshalError(h) ==
    /\ BodyRead(h)
    /\ Decoded(h).err
    /\ respStruct' = [respStruct EXCEPT ![h] = Decoded(h).val]
    /\ Finish(h, w[h])
    /\ UNCHANGED <<req, calls, upstream, ret>>

\* mutant of RespStruct: respStruct is one package-level variable, here the
\* one the first handling decodes into
SharedRespStruct(h, val) == IF h = 1 THEN val ELSE respStruct[1]

\* var respStruct []*GitHubReleasesResp, local to the call
RespStruct(h, val) == val

Latest(h) == GetLatestRelease(RespStruct(h, Decoded(h).val))

Unmarshalled(h) ==
    /\ BodyRead(h)
    /\ ~Decoded(h).err
    /\ respStruct' = [respStruct EXCEPT ![h] = RespStruct(h, Decoded(h).val)]

\* GetLatestRelease dereferences a nil element: the handler panics and the
\* server's recover ends the handling with nothing written
LatestPanics(h) ==
    /\ Unmarshalled(h)
    /\ Latest(h).panic
    /\ pc' = [pc EXCEPT ![h] = "panicked"]
    /\ UNCHANGED <<req, w, calls, upstream, ret>>

\* ret == nil
NoRelease(h) ==
    /\ Unmarshalled(h)
    /\ ~Latest(h).panic
    /\ Latest(h).ret.nil
    /\ ret' = [ret EXCEPT ![h] = Latest(h).ret]
    /\ Finish(h, WriteJson(w[h], NewResp(-1,
           Sprintf("repo: %s has no release jet", <<RepoName(h)>>))))
    /\ UNCHANGED <<req, calls, upstream>>

Found(h) == AssertByName(Latest(h).ret, QueryGet(req[h].name))

\* ret.AssertByName returns an error
AssetError(h) ==
    /\ Unmarshalled(h)
    /\ ~Latest(h).panic
    /\ ~Latest(h).ret.nil
    /\ Found(h).err # NoError
    /\ ret' = [ret EXCEPT ![h] = Latest(h).ret]
    /\ Finish(h, WriteJson(w[h], NewResp(-1,
           Sprintf("get repo: %s's asset err: %s", <<RepoName(h), Found(h).err>>))))
    /\ UNCHANGED <<req, calls, upstream>>

\* http.Redirect(w, r, downloadURL, http.StatusTemporaryRedirect)
RedirectToAsset(h) ==
    /\ Unmarshalled(h)
    /\ ~Latest(h).panic
    /\ ~Latest(h).ret.nil
    /\ Found(h).err = NoError
    /\ ret' = [ret EXCEPT ![h] = Latest(h).ret]
    /\ Finish(h, Redirect(w[h], req[h], Found(h).url, StatusTemporaryRedirect))
    /\ UNCHANGED <<req, calls, upstream>>

Step(h, bodies) ==
    \/ MethodNotAllowed(h)
    \/ RepoMissing(h)
    \/ RepoMalformed(h)
    \/ NewRequestError(h)
    \/ NewRequest(h)
    \/ ClientDoError(h)
    \/ ClientDo(h, bodies)
    \/ ReadAllError(h)
    \/ UnmarshalError(h)
    \/ LatestPanics(h)
    \/ NoRelease(h)
    \/ AssetError(h)
    \/ RedirectToAsset(h)

(***************************************************************************)
(* Spec: one handling of any request, with any upstream reply.              *)
(***************************************************************************)
IdleRequest == [method |-> MethodGet, repo |-> Absent(<<>>), name |-> Absent("")]

Fresh ==
    /\ w = [h \in Handlers |-> NewWriter]
    /\ calls = [h \in Handlers |-> 0]
    /\ upstream = [h \in Handlers |-> NoReply]
    /\ respStruct = [h \in Handlers |-> <<>>]
    /\ ret = [h \in Handlers |-> Nil]

Init ==
    /\ pc = [h \in Handlers |-> IF h = 1 THEN "start" ELSE "idle"]
    /\ \E r \in Requests : req = [h \in Handlers |-> IF h = 1 THEN r ELSE IdleRequest]
    /\ Fresh

Next == \E h \in {1} : Step(h, Bodies)

Spec == Init /\ [][Next]_vars

(***************************************************************************)
(* SpecPair: two handlings run concurrently, their steps interleaved.       *)
(***************************************************************************)
PairRequests ==
    [method : {MethodGet, "POST"},
     repo : {Absent(<<>>), Present(<<"o">>), Present(<<"o", "/", "o">>),
             Present(<<"%", "/", "o">>)},
     name : {Present(""), Present("a.zip")}]

PairBodies ==
    {BrokenBody, Body(JErrorObject), Body(JArray(<<>>)),
     Body(JArray(<<JNull, JRelease(T2023, <<A1>>)>>)),
     Body(JArray(<<JRelease(T2023, <<A1>>)>>)),
     Body(JArray(<<JRelease(T2023, <<A2>>), JRelease(T2020, <<A1>>)>>))}

InitPair ==
    /\ pc = [h \in Handlers |-> "start"]
    /\ req \in [Handlers -> PairRequests]
    /\ Fresh

NextPair == \E h \in Handlers : Step(h, PairBodies)

SpecPair == InitPair /\ [][NextPair]_vars

(***************************************************************************)
(* SpecLatest: one handling from the point where client.Do has returned,    *)
(* over upstream bodies whose releases carry any of TimeStrs.               *)
(***************************************************************************)
LatestElements ==
    {JNull} \cup {JRelease(t, as) : t \in TimeStrs, as \in {<<>>, <<A1>>}}

LatestBodies ==
    {BrokenBody, Body(JInvalid)}
        \cup {Body(JArray(es)) : es \in Str(MaxLatestLen, LatestElements)}

LatestRequest ==
    [method |-> MethodGet, repo |-> Present(<<"o", "/", "o">>), name |-> Present("a.zip")]

InitLatest ==
    /\ pc = [h \in Handlers |-> IF h = 1 THEN "read" ELSE "idle"]
    /\ req = [h \in Handlers |-> IF h = 1 THEN LatestRequest ELSE IdleRequest]
    /\ w = [h \in Handlers |-> NewWriter]
    /\ calls = [h \in Handlers |-> IF h = 1 THEN 1 ELSE 0]
    /\ \E body \in LatestBodies :
           upstream = [h \in Handlers |-> IF h = 1 THEN Reply(200, body) ELSE NoReply]
    /\ respStruct = [h \in Handlers |-> <<>>]
    /\ ret = [h \in Handlers |-> Nil]

NextLatest ==
    \E h \in {1} :
        \/ ReadAllError(h)
        \/ UnmarshalError(h)
        \/ LatestPanics(h)
        \/ NoRelease(h)
        \/ AssetError(h)
        \/ RedirectToAsset(h)

SpecLatest == InitLatest /\ [][NextLatest]_vars

(***************************************************************************)
(* Properties.                                                              *)
(***************************************************************************)
Terminated(h) == pc[h] \in {"done", "panicked"}

IsGet(h) == pc[h] # "idle" /\ req[h].method = MethodGet

NameOf(h) == QueryGet(req[h].name)

\* client.Do returned a response whose body was read and decoded without
\* error: respStruct[h] is the release list
DecodedList(h) ==
    /\ Terminated(h)
    /\ upstream[h].status # 0
    /\ ~upstream[h].body.readErr
    /\ upstream[h].body.doc.j \in {"array", "null"}

\* the body of a response that is one JSON envelope {code, msg}
Envelope(code, format, args) ==
    <<[kind |-> "json", data |-> [code |-> code, msg |-> [format |-> format, args |-> args]]]>>

\* the response is HTTP 200 with the envelope {-1, msg} and nothing else
AnsweredError(h, format, args) ==
    /\ w[h].status = StatusOK
    /\ w[h].sent = {}
    /\ w[h].body = Envelope(-1, format, args)

AnsweredAssetError(h, err) ==
    AnsweredError(h, "get repo: %s's asset err: %s", <<RepoName(h), err>>)

AnsweredNoRelease(h) ==
    AnsweredError(h, "repo: %s has no release jet", <<RepoName(h)>>)

\* the response is a redirect of the given status to url and nothing else
AnsweredRedirect(h, status, url) ==
    /\ w[h].status = status
    /\ w[h].sent = {<<"Location", url>>}
    /\ w[h].body = <<[kind |-> "html", href |-> url]>>

NothingWritten(h) == w[h] = NewWriter

\* the indices of the assets of release r whose name is exactly name
Matches(r, name) ==
    IF r.nil THEN {} ELSE {i \in 1..Len(r.Assets) : r.Assets[i].Name = name}

First(S) == CHOOSE i \in S : \A j \in S : i <= j

\* C1: a GET whose upstream body decoded to a release list is answered with
\* a 307 redirect exactly when the list is non-empty, name is non-empty and
\* the release GetLatestRelease chooses has an asset named exactly name; the
\* target is then the downloadUrl of the first such asset, and no other URL.
C1_RedirectIffAssetFound ==
    \A h \in Handlers :
        (IsGet(h) /\ DecodedList(h)) =>
            LET sel == GetLatestRelease(respStruct[h])
                m   == IF sel.panic THEN {} ELSE Matches(sel.ret, NameOf(h))
                hit == Len(respStruct[h]) > 0 /\ NameOf(h) # "" /\ m # {}
            IN  /\ (w[h].status = StatusTemporaryRedirect) <=> hit
                /\ hit => AnsweredRedirect(h, StatusTemporaryRedirect,
                              sel.ret.Assets[First(m)].BrowserDownloadUrl)
                /\ ~hit => \A kv \in w[h].sent \cup w[h].header : kv[1] # "Location"

\* C1 witness: two releases, the later one second in the list and carrying
\* two assets of the requested name; the redirect goes to the first of them.
C1_Witness ==
    /\ pc[1] = "done"
    /\ Len(respStruct[1]) = 2
    /\ ret[1] = respStruct[1][2]
    /\ ret[1] # respStruct[1][1]
    /\ Cardinality(Matches(ret[1], NameOf(1))) = 2
    /\ ret[1].Assets[1].BrowserDownloadUrl # ret[1].Assets[2].BrowserDownloadUrl
    /\ AnsweredRedirect(1, StatusTemporaryRedirect, ret[1].Assets[1].BrowserDownloadUrl)

\* C10: name is looked at only once a release is selected.  An empty list
\* gives the no-release envelope whatever name is; with a release selected,
\* an empty name gives "release filename is empty" even without assets,
\* else no assets gives "asset list is empty", else no exactly equal asset
\* name gives "not found", each inside {-1, "get repo: <repo>'s asset err:
\* <error>"}; and such an envelope is written only after the one upstream
\* call returned a list from which a release was selected.
C10_LazyNameAndPrecedence ==
    \A h \in Handlers :
        /\ (IsGet(h) /\ DecodedList(h) /\ pc[h] = "done") =>
               LET list == respStruct[h]
                   sel  == GetLatestRelease(list).ret
               IN  /\ Len(list) = 0 => AnsweredNoRelease(h)
                   /\ (~sel.nil /\ NameOf(h) = "") =>
                          AnsweredAssetError(h, "release filename is empty")
                   /\ (~sel.nil /\ NameOf(h) # "" /\ Len(sel.Assets) = 0) =>
                          AnsweredAssetError(h, "asset list is empty")
                   /\ (~sel.nil /\ NameOf(h) # "" /\ Len(sel.Assets) > 0
                         /\ Matches(sel, NameOf(h)) = {}) =>
                          AnsweredAssetError(h, "not found")
        /\ (\E err \in {"release filename is empty", "asset list is empty",
                        "not found", "github api response is empty"} :
                AnsweredAssetError(h, err)) =>
               /\ calls[h] = 1
               /\ DecodedList(h)
               /\ ~ret[h].nil

\* C10 witness: a release without assets was selected and name is empty.
C10_Witness ==
    /\ pc[1] = "done"
    /\ NameOf(1) = ""
    /\ Len(respStruct[1]) = 2
    /\ ~ret[1].nil
    /\ Len(ret[1].Assets) = 0
    /\ AnsweredAssetError(1, "release filename is empty")

\* C7: while a GET is handled at most one response is written, and it is
\* either a 307 redirect or an HTTP 200 envelope {code, msg} with code -1;
\* never both, never another code, never a 4xx or 5xx status.
C7_OneResponse ==
    \A h \in Handlers :
        IsGet(h) =>
            \/ NothingWritten(h)
            \/ /\ w[h].wroteHeader
               /\ w[h].status = StatusTemporaryRedirect
               /\ \E kv \in w[h].sent :
                      AnsweredRedirect(h, StatusTemporaryRedirect, kv[2])
            \/ /\ w[h].wroteHeader
               /\ w[h].status = StatusOK
               /\ w[h].sent = {}
               /\ Len(w[h].body) = 1
               /\ w[h].body[1].kind = "json"
               /\ w[h].body[1].data.code = -1

\* C7 witness: a GET whose handling ended with the "not found" envelope.
C7_Witness ==
    /\ pc[1] = "done"
    /\ IsGet(1)
    /\ AnsweredAssetError(1, "not found")

\* the repo splits on "/" into exactly two non-empty segments
TwoNonEmptySegments(repoName) ==
    LET parts == Split(repoName, "/")
    IN  Len(parts) = 2 /\ parts[1] # <<>> /\ parts[2] # <<>>

\* C4, as claimed: a GET with an empty repo gets the provide-repo envelope,
\* one with a non-empty repo that is not two non-empty segments gets the
\* check-your-repo envelope, and only owner/name goes on to the upstream.
C4_AsClaimed ==
    \A h \in Handlers :
        IsGet(h) =>
            /\ (pc[h] = "done" /\ RepoName(h) = <<>>) =>
                   AnsweredError(h, "please provide repo name, for more detail, visit: %s",
                                 <<homePage>>)
            /\ (pc[h] = "done" /\ RepoName(h) # <<>>
                  /\ ~TwoNonEmptySegments(RepoName(h))) =>
                   AnsweredError(h,
                       "please check your repo name(%s), for more detail, visit: %s",
                       <<RepoName(h), homePage>>)
            /\ (pc[h] \in {"do", "read"} \/ calls[h] > 0) =>
                   TwoNonEmptySegments(RepoName(h))

\* the request was answered with one of the two repo envelopes
Rejected(h) ==
    \/ AnsweredError(h, "please provide repo name, for more detail, visit: %s",
                     <<homePage>>)
    \/ AnsweredError(h, "please check your repo name(%s), for more detail, visit: %s",
                     <<RepoName(h), homePage>>)

\* what the claim and its amendment share: never more than one call; none
\* for a method other than GET or a rejected repo, before or after the
\* response; a call only for a GET whose repo passed the handler's test.
AtMostOneCall(h) ==
    /\ calls[h] <= 1
    /\ (pc[h] # "idle" /\ req[h].method # MethodGet) => calls[h] = 0
    /\ Rejected(h) => (calls[h] = 0 /\ pc[h] = "done")
    /\ calls[h] > 0 =>
           (IsGet(h) /\ RepoName(h) # <<>> /\ Len(Split(RepoName(h), "/")) = 2)

\* C5, as claimed: ... and exactly one call for every other request.
C5_AsClaimed ==
    \A h \in Handlers :
        /\ AtMostOneCall(h)
        /\ (Terminated(h) /\ IsGet(h) /\ ~Rejected(h)) => calls[h] = 1

\* the outbound request of this repo can be built: every "%" of the repo
\* starts an escape of two hexadecimal digits
Buildable(repoName) ==
    \A i \in 1..Len(repoName) :
        repoName[i] = "%" =>
            /\ i + 2 <= Len(repoName)
            /\ repoName[i + 1] \in HexDigits
            /\ repoName[i + 2] \in HexDigits

\* C5, amended: ... exactly one call for every other request whose outbound
\* request can be built, and none when building it fails.
C5_OneCallUnlessUnbuildable ==
    \A h \in Handlers :
        /\ AtMostOneCall(h)
        /\ (Terminated(h) /\ IsGet(h) /\ ~Rejected(h)) =>
               calls[h] = (IF Buildable(RepoName(h)) THEN 1 ELSE 0)

\* C5 witness: a handling that ended after a transport failure of its one
\* call.
C5_Witness ==
    /\ pc[1] = "done"
    /\ upstream[1].err
    /\ calls[1] = 1
    /\ NothingWritten(1)

\* C6, as claimed: a request of another method than GET is answered with
\* status 405 and the header Allow: GET, without envelope or redirect.
C6_AsClaimed ==
    \A h \in Handlers :
        (pc[h] = "done" /\ req[h].method # MethodGet) =>
            /\ w[h].status = StatusMethodNotAllowed
            /\ <<"Allow", MethodGet>> \in w[h].sent
            /\ w[h].body = <<>>
            /\ \A kv \in w[h].sent : kv[1] # "Location"

\* the Unix seconds GetLatestRelease compares for element k of list
UnixAt(list, k) == TimeStrToUnix(list[k].PublishedAt)

\* C2: of an empty list GetLatestRelease returns no release, and the handler
\* answers {-1, "repo: <repo> has no release jet"}; of a one-element list it
\* returns the element; of a longer list it returns the element whose
\* publishedAt in Unix seconds is greatest, whatever the order of the list,
\* and among several greatest the one at the lowest index.
C2_LatestIsFirstGreatest ==
    \A h \in Handlers :
        (DecodedList(h) /\ pc[h] = "done") =>
            LET list == respStruct[h]
            IN  /\ Len(list) = 0 => (ret[h] = Nil /\ AnsweredNoRelease(h))
                /\ Len(list) = 1 => ret[h] = list[1]
                /\ Len(list) >= 2 =>
                       \E i \in 1..Len(list) :
                           /\ ret[h] = list[i]
                           /\ \A j \in 1..Len(list) :
                                  ~UnixGT(UnixAt(list, j), UnixAt(list, i))
                           /\ \A j \in 1..(i - 1) :
                                  UnixGT(UnixAt(list, i), UnixAt(list, j))

\* C2 witness: three releases; the second and the third are published at the
\* same instant, written differently, after the first; the second is chosen.
C2_Witness ==
    /\ pc[1] = "done"
    /\ Len(respStruct[1]) = 3
    /\ UnixGT(UnixAt(respStruct[1], 2), UnixAt(respStruct[1], 1))
    /\ UnixAt(respStruct[1], 2) = UnixAt(respStruct[1], 3)
    /\ respStruct[1][2] # respStruct[1][3]
    /\ ret[1] = respStruct[1][2]

\* a publishedAt that is non-empty and parses as RFC3339
ValidTime(s) == s # <<>> /\ ~ParseRFC3339(s).err

\* C3, as claimed: TimeStrToUnix yields 0 for an empty or unparsable
\* publishedAt, and of a list holding a release with a valid publishedAt
\* GetLatestRelease never returns one whose publishedAt is empty or
\* unparsable.
C3_AsClaimed ==
    \A h \in Handlers :
        (DecodedList(h) /\ pc[h] = "done") =>
            LET list == respStruct[h]
            IN  /\ \A i \in 1..Len(list) :
                       (~list[i].nil /\ ~ValidTime(list[i].PublishedAt)) =>
                           UnixAt(list, i) = UnixZero
                /\ (\E i \in 1..Len(list) :
                        ~list[i].nil /\ ValidTime(list[i].PublishedAt)) =>
                       (~ret[h].nil /\ ValidTime(ret[h].PublishedAt))

\* the two handlings got the same request
SameRequest(h1, h2) == req[h1] = req[h2]

\* what the client of handling h observes
Outcome(h) == <<pc[h], w[h]>>

\* C8: when building or sending the upstream request fails, reading the
\* body fails or the body is no list of releases, the handler returns with
\* nothing written; and the upstream status is not consulted: two handlings
\* of the same request whose upstream bodies are the same end the same,
\* whatever the two statuses.
C8_SilentOnFailureStatusIgnored ==
    /\ \A h \in Handlers :
           (/\ IsGet(h)
            /\ pc[h] = "done"
            /\ ~Rejected(h)
            /\ \/ ~Buildable(RepoName(h))
               \/ upstream[h].err
               \/ /\ upstream[h].status # 0
                  /\ \/ upstream[h].body.readErr
                     \/ upstream[h].body.doc.j \in {"invalid", "object"})
           => NothingWritten(h)
    /\ \A h1, h2 \in Handlers :
           (/\ Terminated(h1) /\ Terminated(h2)
            /\ SameRequest(h1, h2)
            /\ upstream[h1].status # 0 /\ upstream[h2].status # 0
            /\ upstream[h1].body = upstream[h2].body)
           => Outcome(h1) = Outcome(h2)

\* C8 witness: the same request handled twice, the same list of releases in
\* both upstream bodies, one reply with status 200 and one with 403, both
\* handlings redirected.
C8_Witness ==
    /\ pc[1] = "done" /\ pc[2] = "done"
    /\ SameRequest(1, 2)
    /\ upstream[1].status = 200 /\ upstream[2].status = 403
    /\ upstream[1].body = upstream[2].body
    /\ w[1].status = StatusTemporaryRedirect
    /\ w[2].status = StatusTemporaryRedirect

\* the state of handling h
Local(h) == <<pc[h], req[h], w[h], calls[h], upstream[h], respStruct[h], ret[h]>>

\* two handlings of the same request with the same upstream reply end the same
SameInputSameOutcome ==
    \A h1, h2 \in Handlers :
        (/\ Terminated(h1) /\ Terminated(h2)
         /\ SameRequest(h1, h2)
         /\ upstream[h1] = upstream[h2])
        => (Outcome(h1) = Outcome(h2) /\ ret[h1] = ret[h2])

\* a step changes the state of one handling only
OneHandlingPerStep ==
    \A h1, h2 \in Handlers :
        (h1 # h2 /\ Local(h1)' # Local(h1)) => Local(h2)' = Local(h2)

\* C9: handlings of the same request that get the same upstream reply end
\* with the same outcome, the same redirect target in particular, in every
\* interleaving with another handling; and no step of one handling changes
\* the state of another.
C9_DeterministicAndIsolated ==
    /\ []SameInputSameOutcome
    /\ [][OneHandlingPerStep]_vars

\* C9 witness: the same request handled twice with the same reply, both
\* handlings redirected to the same target.
C9_Witness ==
    /\ pc[1] = "done" /\ pc[2] = "done"
    /\ SameRequest(1, 2)
    /\ upstream[1] = upstream[2]
    /\ w[1].status = StatusTemporaryRedirect
    /\ w[1] = w[2]

====
